---- MODULE Spec2Model ----
(***************************************************************************)
(* Tracked-change aware text editing of an unpacked word-processing        *)
(* document: docx_edit.py (replace_text, insert_text_after, delete_text)   *)
(* over utils/ooxml_helpers.py.                                            *)
(*                                                                         *)
(* The two parts on disk (word/document.xml, word/settings.xml) are the    *)
(* state.  One action is one whole call: load, edit in memory, save.       *)
(* An element tree in memory is an arena: a sequence of nodes, node 1 the  *)
(* root, children held as sequences of node numbers, so that an element    *)
(* keeps its identity while it is moved, detached or searched for.         *)
(* Text is a sequence of one-character strings.                            *)
(***************************************************************************)
EXTENDS Integers, Sequences, FiniteSets, TLC

VARIABLES doc, settings, op, left

vars == <<doc, settings, op, left>>

(***************************************************************************)
(* Strings.                                                                *)
(***************************************************************************)

\* s[i..] starts with f
StartsAt(s, f, i) ==
    /\ i + Len(f) - 1 <= Len(s)
    /\ \A k \in 1..Len(f) : s[i + k - 1] = f[k]

\* 1-based position of the leftmost occurrence of f in s, 0 when there is none
\* (str.find; the empty string is found at the start of every string)
Find(s, f) ==
    LET hits == {i \in 1..(Len(s) + 1) : StartsAt(s, f, i)}
    IN  IF hits = {} THEN 0 ELSE CHOOSE i \in hits : \A j \in hits : i <= j

\* `f in s`
In(f, s) == Find(s, f) # 0

\* str.partition(f) for a non-empty f: <<before, sep, after>>
partition(s, f) ==
    LET i == Find(s, f)
    IN  IF i = 0 THEN <<s, <<>>, <<>>>>
        ELSE <<SubSeq(s, 1, i - 1), f, SubSeq(s, i + Len(f), Len(s))>>

RECURSIVE InterleaveStr(_, _)
\* r before every character of s (the empty-pattern case of str.replace, less
\* the trailing r)
InterleaveStr(s, r) ==
    IF s = <<>> THEN <<>> ELSE r \o <<Head(s)>> \o InterleaveStr(Tail(s), r)

RECURSIVE ReplaceFrom(_, _, _)
ReplaceFrom(s, f, r) ==
    LET i == Find(s, f)
    IN  IF i = 0 THEN s
        ELSE SubSeq(s, 1, i - 1) \o r
             \o ReplaceFrom(SubSeq(s, i + Len(f), Len(s)), f, r)

\* str.replace(f, r): every non-overlapping occurrence, left to right
str_replace(s, f, r) ==
    IF f = <<>> THEN InterleaveStr(s, r) \o r ELSE ReplaceFrom(s, f, r)

\* text.startswith(" ") or text.endswith(" ")
EdgeSpace(s) == s # <<>> /\ (s[1] = " " \/ s[Len(s)] = " ")

(***************************************************************************)
(* Decimal identifiers: the w:id attribute is a string.                    *)
(***************************************************************************)

Digits == <<"0", "1", "2", "3", "4", "5", "6", "7", "8", "9">>

IsDigit(c) == \E d \in 1..10 : Digits[d] = c

DigitVal(c) == (CHOOSE d \in 1..10 : Digits[d] = c) - 1

RECURSIVE DigitsVal(_)
DigitsVal(s) ==
    IF s = <<>> THEN 0
    ELSE DigitsVal(SubSeq(s, 1, Len(s) - 1)) * 10 + DigitVal(s[Len(s)])

AllDigits(s) == s # <<>> /\ \A i \in 1..Len(s) : IsDigit(s[i])

\* int(s) succeeds (sign and decimal digits; no other spelling occurs here)
IsInt(s) ==
    \/ AllDigits(s)
    \/ Len(s) >= 2 /\ s[1] \in {"-", "+"} /\ AllDigits(Tail(s))

\* int(s), for IsInt(s)
IntOf(s) ==
    IF s[1] = "-" THEN 0 - DigitsVal(Tail(s))
    ELSE IF s[1] = "+" THEN DigitsVal(Tail(s))
    ELSE DigitsVal(s)

RECURSIVE NatStr(_)
NatStr(n) ==
    IF n < 10 THEN <<Digits[n + 1]>>
    ELSE NatStr(n \div 10) \o <<Digits[(n % 10) + 1]>>

\* str(n)
IntStr(n) == IF n < 0 THEN <<"-">> \o NatStr(0 - n) ELSE NatStr(n)

(***************************************************************************)
(* Element trees.                                                          *)
(*   k    tag: body p r rPr t delText ins del txbx bookmarkStart           *)
(*   txt  the element's text (t and delText leaves)                        *)
(*   wid  the w:id attribute, <<>> when absent or empty                    *)
(*   sp   xml:space="preserve"                                             *)
(*   au   the w:author attribute                                           *)
(*   ch   the children, in order                                           *)
(***************************************************************************)

Node(k, txt, wid, sp, au, ch) ==
    [k |-> k, txt |-> txt, wid |-> wid, sp |-> sp, au |-> au, ch |-> ch]

Elem(k, ch) == Node(k, <<>>, <<>>, FALSE, "", ch)

InSeq(x, s) == \E i \in 1..Len(s) : s[i] = x

\* list.index(x), 1-based; 0 stands for the ValueError of a missing x
IndexOf(s, x) ==
    IF InSeq(x, s) THEN CHOOSE i \in 1..Len(s) : s[i] = x /\ \A j \in 1..(i - 1) : s[j] # x
    ELSE 0

RECURSIVE Iter(_, _)
RECURSIVE IterAll(_, _)
\* Element.iter(): the element, then its descendants, in document order
Iter(T, n) == <<n>> \o IterAll(T, T[n].ch)

IterAll(T, ns) ==
    IF ns = <<>> THEN <<>> ELSE Iter(T, Head(ns)) \o IterAll(T, Tail(ns))

\* Element.iter(tag)
IterTag(T, n, tag) == SelectSeq(Iter(T, n), LAMBDA x : T[x].k = tag)

RECURSIVE Concat(_)
Concat(ss) == IF ss = <<>> THEN <<>> ELSE Head(ss) \o Concat(Tail(ss))

get_text_content(T, n) ==
    LET ts == IterTag(T, n, "t")
    IN  Concat([i \in 1..Len(ts) |-> T[ts[i]].txt])

\* The tree as it is after save_document and parse_document: the elements
\* reachable from the root, numbered in document order.
Canon(T) ==
    LET order == Iter(T, 1)
        rank(n) == CHOOSE i \in 1..Len(order) : order[i] = n
    IN  [i \in 1..Len(order) |->
            [T[order[i]] EXCEPT !.ch = [j \in 1..Len(T[order[i]].ch) |->
                                            rank(T[order[i]].ch[j])]]]

\* parent.insert(i, x) with i counted from 1, parent.remove(x), parent.append(x)
Insert(T, parent, i, x) ==
    [T EXCEPT ![parent].ch =
        SubSeq(@, 1, i - 1) \o <<x>> \o SubSeq(@, i, Len(@))]

Remove(T, parent, x) ==
    LET i == IndexOf(T[parent].ch, x)
    IN  [T EXCEPT ![parent].ch = SubSeq(@, 1, i - 1) \o SubSeq(@, i + 1, Len(@))]

(***************************************************************************)
(* Change-ID allocator.                                                    *)
(***************************************************************************)

RECURSIVE MaxIdOver(_, _, _)
\* the loop of get_next_change_id over the elements ns, from max_id = m
MaxIdOver(T, ns, m) ==
    IF ns = <<>> THEN m
    ELSE LET a == T[Head(ns)].wid
             m1 == IF a # <<>> /\ IsInt(a) /\ IntOf(a) > m THEN IntOf(a) ELSE m
         IN  MaxIdOver(T, Tail(ns), m1)

\* A slip: the highest identifier itself is handed out again.
get_next_change_id_no_increment(T) == MaxIdOver(T, Iter(T, 1), 0)

\* A slip: the identifiers are counted, not compared.
get_next_change_id_by_count(T) ==
    Len(SelectSeq(Iter(T, 1), LAMBDA n : T[n].wid # <<>> /\ IsInt(T[n].wid))) + 1

get_next_change_id(T) == MaxIdOver(T, Iter(T, 1), 0) + 1

(***************************************************************************)
(* Markup synthesizer.  Each builder adds its elements to the arena and    *)
(* returns the arena with the number of the element built.                 *)
(***************************************************************************)

Built(T, n) == [T |-> T, n |-> n]

\* flags a leading space only
create_text_element_leading(text) ==
    Node("t", text, <<>>, text # <<>> /\ Head(text) = " ", "", <<>>)

create_text_element(text) ==
    Node("t", text, <<>>, EdgeSpace(text), "", <<>>)

\* create_run(text): every call of the edit engine leaves bold and italic
\* at their defaults, so no rPr is added
create_run(T, text) ==
    LET t == Len(T) + 1
        r == Len(T) + 2
    IN  Built(T \o <<create_text_element(text), Elem("r", <<t>>)>>, r)

create_tracked_insertion(T, text, author, change_id) ==
    LET b == create_run(T, text)
        i == Len(b.T) + 1
    IN  Built(b.T \o <<Node("ins", <<>>, IntStr(change_id), FALSE, author, <<b.n>>)>>, i)

create_tracked_deletion(T, text, author, change_id) ==
    LET dt == Len(T) + 1
        r == Len(T) + 2
        d == Len(T) + 3
    IN  Built(T \o << Node("delText", text, <<>>, EdgeSpace(text), "", <<>>),
                      Elem("r", <<dt>>),
                      Node("del", <<>>, IntStr(change_id), FALSE, author, <<r>>) >>, d)

(***************************************************************************)
(* The settings part: present or not; dup when its root carries the        *)
(* xmlns:w attribute twice (not well-formed); kids the tags of its         *)
(* children.                                                               *)
(***************************************************************************)

NoSettings == [present |-> FALSE, dup |-> FALSE, kids |-> <<>>]

\* enable_track_changes: the settings part written, or the error raised
\* before anything is written.  A root created here gets an explicit
\* xmlns:w attribute next to the registered namespace declaration, and the
\* serializer writes both.
enable_track_changes(s) ==
    IF s.present /\ s.dup THEN [err |-> "ParseError", settings |-> s]
    ELSE LET root == IF s.present THEN s.kids ELSE <<>>
             kids == IF InSeq("trackRevisions", root) THEN root
                     ELSE <<"trackRevisions">> \o root
         IN  [err |-> "",
              settings |-> [present |-> TRUE, dup |-> ~s.present, kids |-> kids]]

(***************************************************************************)
(* Edit engine.  st is the call's working state: the arena T, the next     *)
(* change_id cid, the counter n and the error err ("" while none).         *)
(***************************************************************************)

\* the parent search of the edit loops: the first element under para that
\* has run among its children, para itself when there is none
ParentOf(T, para, run) ==
    LET ps == SelectSeq(Iter(T, para), LAMBDA p : InSeq(run, T[p].ch))
    IN  IF ps = <<>> THEN para ELSE Head(ps)

\* the element after x among the tag elements Element.iter walks from the
\* root as the tree is now, 0 at the end (the iterator reads the live child
\* lists)
NextTag(T, x, tag) ==
    LET ps == IterTag(T, 1, tag)
        i == IndexOf(ps, x)
    IN  IF i = 0 \/ i = Len(ps) THEN 0 ELSE ps[i + 1]

FirstTag(T, tag) ==
    LET ps == IterTag(T, 1, tag) IN IF ps = <<>> THEN 0 ELSE Head(ps)

\* A slip: the test is dropped, every run of a matching paragraph is edited.
RunMatchesAlways(T, run, find_text) == TRUE

\* the test of the loops over runs: find_text in get_text_content(run)
RunMatches(T, run, find_text) == In(find_text, get_text_content(T, run))

\* parent.insert(insert_index, element); insert_index += 1, for an element
\* that is in the arena: w is the arena T with the insert_index at
put_node(w, parent, n) == [T |-> Insert(w.T, parent, w.at, n), at |-> w.at + 1]

\* the same for an element just built (b.T the arena with it, b.n its number)
put_built(b, parent, at) == [T |-> Insert(b.T, parent, at, b.n), at |-> at + 1]

\* parent.insert(insert_index, create_run(text)); insert_index += 1
put_run(w, parent, text) == put_built(create_run(w.T, text), parent, w.at)

\* if text: parent.insert(insert_index, create_run(text)); insert_index += 1
put_run_if(w, parent, text) == IF text # <<>> THEN put_run(w, parent, text) ELSE w

\* A slip: the insertion is put in before the deletion.
tracked_splice_ins_first(dn, i, parent, run, run_index, parts) ==
    put_run_if(
        put_node(
            put_node(
                put_run_if([T |-> Remove(i.T, parent, run), at |-> run_index],
                           parent, parts[1]),
                parent, i.n),
            parent, dn),
        parent, parts[3]).T

\* docx_edit.py 104-125: with the deletion (element dn) and the insertion i
\* built and parts = run_text.partition(find_text), the run is removed and
\* [before?, deletion, insertion, after?] are put in from run_index on
tracked_splice(dn, i, parent, run, run_index, parts) ==
    put_run_if(
        put_node(
            put_node(
                put_run_if([T |-> Remove(i.T, parent, run), at |-> run_index],
                           parent, parts[1]),
                parent, dn),
            parent, i.n),
        parent, parts[3]).T

\* docx_edit.py 100-125: with the deletion d built, the insertion is built
\* with the next change_id and the run is split
tracked_records(d, change_id, parent, run, run_index, parts, repl, author) ==
    tracked_splice(d.n, create_tracked_insertion(d.T, repl, author, change_id),
                   parent, run, run_index, parts)

\* gives the insertion the deletion's change_id and moves on by one
replace_tracked_one_id(st, parent, run, run_index, run_text, find_text, repl, author) ==
    IF find_text = <<>> THEN [st EXCEPT !.err = "ValueError"]
    ELSE [st EXCEPT
            !.T = tracked_records(
                      create_tracked_deletion(st.T, find_text, author, st.cid),
                      st.cid, parent, run, run_index,
                      partition(run_text, find_text), repl, author),
            !.cid = st.cid + 1]

\* docx_edit.py 95-125: the tracked branch for one matched run; partition
\* raises ValueError on an empty find_text
replace_tracked(st, parent, run, run_index, run_text, find_text, repl, author) ==
    IF find_text = <<>> THEN [st EXCEPT !.err = "ValueError"]
    ELSE [st EXCEPT
            !.T = tracked_records(
                      create_tracked_deletion(st.T, find_text, author, st.cid),
                      st.cid + 1, parent, run, run_index,
                      partition(run_text, find_text), repl, author),
            !.cid = st.cid + 2]

\* the first text leaf of run gets text (for t in run.iter(w:t): ...; break)
set_first_text(st, ts, text) ==
    IF ts = <<>> THEN st ELSE [st EXCEPT !.T[Head(ts)].txt = text]

\* docx_edit.py 127-134: the untracked branch for one matched run
replace_untracked(st, run, run_text, find_text, repl) ==
    set_first_text(st, IterTag(st.T, run, "t"), str_replace(run_text, find_text, repl))

\* docx_edit.py 136: replacements += 1, reached when the branch raised nothing
counted(st) == IF st.err # "" THEN st ELSE [st EXCEPT !.n = st.n + 1]

\* docx_edit.py 92-136: the edit of one matched run under its parent;
\* list(parent).index(run) raises ValueError for a run the parent has lost
replace_at(st, parent, run, run_index, find_text, repl, track, author) ==
    IF run_index = 0 THEN [st EXCEPT !.err = "ValueError"]
    ELSE counted(IF track
                 THEN replace_tracked(st, parent, run, run_index,
                                      get_text_content(st.T, run),
                                      find_text, repl, author)
                 ELSE replace_untracked(st, run, get_text_content(st.T, run),
                                        find_text, repl))

\* docx_edit.py 82-93: the parent found, the index of the run in it
replace_under(st, parent, run, find_text, repl, track, author) ==
    replace_at(st, parent, run, IndexOf(st.T[parent].ch, run),
               find_text, repl, track, author)

\* docx_edit.py 76-136: the body of the loop over the runs, for one run
replace_run(st, para, run, find_text, repl, track, author) ==
    IF ~RunMatches(st.T, run, find_text) THEN st
    ELSE replace_under(st, ParentOf(st.T, para, run), run,
                       find_text, repl, track, author)

RECURSIVE replace_runs(_, _, _, _, _, _, _)
\* the loop over runs = list(find_runs(para)), a snapshot
replace_runs(st, para, runs, find_text, repl, track, author) ==
    IF runs = <<>> \/ st.err # "" THEN st
    ELSE replace_runs(replace_run(st, para, Head(runs), find_text, repl, track, author),
                      para, Tail(runs), find_text, repl, track, author)

\* docx_edit.py 69-136: the body of the loop over the paragraphs
replace_para(st, para, find_text, repl, track, author) ==
    IF In(find_text, get_text_content(st.T, para))
    THEN replace_runs(st, para, IterTag(st.T, para, "r"), find_text, repl, track, author)
    ELSE st

RECURSIVE replace_paras(_, _, _, _, _, _)
RECURSIVE replace_paras_after(_, _, _, _, _, _)
\* the loop over find_paragraphs(root) from paragraph para on (0: exhausted)
replace_paras(st, para, find_text, repl, track, author) ==
    IF para = 0 \/ st.err # "" THEN st
    ELSE replace_paras_after(replace_para(st, para, find_text, repl, track, author),
                             para, find_text, repl, track, author)

\* the loop goes on from the paragraph the iterator yields after para
replace_paras_after(st, para, find_text, repl, track, author) ==
    replace_paras(st, NextTag(st.T, para, "p"), find_text, repl, track, author)

NoDoc == [present |-> FALSE, tree |-> <<>>]

OnDisk(T) == [present |-> TRUE, tree |-> Canon(T)]

Ret(err, count, inserted) == [err |-> err, count |-> count, inserted |-> inserted]

\* What a call leaves: the two parts, the value returned or the error raised,
\* and the parts written, in the order of the writes.
Outcome(d, s, ret, log) == [doc |-> d, settings |-> s, ret |-> ret, log |-> log]

\* docx_edit.py 65-66: if track_changes: enable_track_changes(folder_path)
enabled(s, track) ==
    IF track THEN enable_track_changes(s) ELSE [err |-> "", settings |-> s]

\* the parts written before the loop
written(track) == IF track THEN <<"settings">> ELSE <<>>

\* A slip: the document part is written before the settings part.
replace_saved_document_first(d, s1, st, log1) ==
    IF st.err # "" THEN Outcome(d, s1, Ret(st.err, 0, FALSE), log1)
    ELSE Outcome(OnDisk(st.T), s1, Ret("", st.n, FALSE), <<"document">> \o log1)

\* docx_edit.py 138-139: save_document and return replacements, after a loop
\* that ended in st; an error raised in the loop leaves the document part
replace_saved(d, s1, st, log1) ==
    IF st.err # "" THEN Outcome(d, s1, Ret(st.err, 0, FALSE), log1)
    ELSE Outcome(OnDisk(st.T), s1, Ret("", st.n, FALSE), log1 \o <<"document">>)

\* docx_edit.py 63-139: replace_text once the document is parsed, e being
\* what enable_track_changes did
replace_loaded(d, s, e, find_text, repl, track, author) ==
    IF e.err # "" THEN Outcome(d, s, Ret(e.err, 0, FALSE), <<>>)
    ELSE replace_saved(
             d, e.settings,
             replace_paras([T |-> d.tree,
                            cid |-> IF track THEN get_next_change_id(d.tree) ELSE 0,
                            n |-> 0, err |-> ""],
                           FirstTag(d.tree, "p"), find_text, repl, track, author),
             written(track))

\* enables track changes before it looks for the document part
replace_text_enable_first(d, s, find_text, repl, track, author) ==
    IF ~d.present
    THEN Outcome(d, enabled(s, track).settings, Ret("FileNotFoundError", 0, FALSE),
                 written(track))
    ELSE replace_loaded(d, s, enabled(s, track), find_text, repl, track, author)

\* replace_text(folder, find_text, replace_text, track_changes, author)
replace_text(d, s, find_text, repl, track, author) ==
    IF ~d.present THEN Outcome(d, s, Ret("FileNotFoundError", 0, FALSE), <<>>)
    ELSE replace_loaded(d, s, enabled(s, track), find_text, repl, track, author)

\* docx_edit.py 205-212: the new text, as an insertion record or a plain run
put_new(w, parent, new_text, track, author, change_id) ==
    put_built(IF track THEN create_tracked_insertion(w.T, new_text, author, change_id)
              ELSE create_run(w.T, new_text),
              parent, w.at)

\* docx_edit.py 190-217: with parts = run_text.partition(after_text), the run
\* is removed and [before + after_text, new text, after?] are put in
insert_split(T, parent, run, parts, after_text, new_text, track, author, change_id) ==
    put_run_if(
        put_new(
            put_run([T |-> Remove(T, parent, run), at |-> IndexOf(T[parent].ch, run)],
                    parent, parts[1] \o after_text),
            parent, new_text, track, author, change_id),
        parent, parts[3]).T

\* docx_edit.py 180-217: the edit of the first run that holds after_text
insert_at(T, para, run, run_text, after_text, new_text, track, author, change_id) ==
    insert_split(T, ParentOf(T, para, run), run, partition(run_text, after_text),
                 after_text, new_text, track, author, change_id)

\* A slip: the scan stops at the first run of the first paragraph whose text
\* holds after_text, without testing the run.
FirstHitFirstRun(T, after_text) ==
    LET hp == SelectSeq(IterTag(T, 1, "p"),
                        LAMBDA p : In(after_text, get_text_content(T, p))
                                   /\ IterTag(T, p, "r") # <<>>)
    IN  IF hp = <<>> THEN <<>> ELSE <<Head(hp), Head(IterTag(T, Head(hp), "r"))>>

\* the runs under paragraph p that hold after_text, in document order
hits_in(T, p, after_text) ==
    SelectSeq(IterTag(T, p, "r"), LAMBDA r : RunMatches(T, r, after_text))

\* the first of the paragraphs ps that has a run to stop at: <<para, run>>,
\* or <<>> when there is none
first_of(T, ps, after_text) ==
    IF ps = <<>> THEN <<>> ELSE <<Head(ps), Head(hits_in(T, Head(ps), after_text))>>

\* the first (paragraph, run) the scan of insert_text_after stops at:
\* <<para, run>>, or <<>> when no run holds after_text
FirstHit(T, after_text) ==
    first_of(T,
             SelectSeq(IterTag(T, 1, "p"),
                       LAMBDA p : In(after_text, get_text_content(T, p))
                                  /\ hits_in(T, p, after_text) # <<>>),
             after_text)

\* docx_edit.py 168-222: insert_text_after from the scan on, h being where the
\* scan stops; partition raises ValueError on an empty after_text
insert_scanned(d, s1, h, after_text, new_text, track, author) ==
    IF h = <<>> THEN Outcome(d, s1, Ret("", 0, FALSE), written(track))
    ELSE IF after_text = <<>>
         THEN Outcome(d, s1, Ret("ValueError", 0, FALSE), written(track))
    ELSE Outcome(OnDisk(insert_at(d.tree, h[1], h[2], get_text_content(d.tree, h[2]),
                                  after_text, new_text, track, author,
                                  IF track THEN get_next_change_id(d.tree) ELSE 0)),
                 s1, Ret("", 0, TRUE), written(track) \o <<"document">>)

\* docx_edit.py 163-222: insert_text_after once the document is parsed
insert_loaded(d, s, e, after_text, new_text, track, author) ==
    IF e.err # "" THEN Outcome(d, s, Ret(e.err, 0, FALSE), <<>>)
    ELSE insert_scanned(d, e.settings, FirstHit(d.tree, after_text),
                        after_text, new_text, track, author)

\* insert_text_after(folder, after_text, new_text, track_changes, author)
insert_text_after(d, s, after_text, new_text, track, author) ==
    IF ~d.present THEN Outcome(d, s, Ret("FileNotFoundError", 0, FALSE), <<>>)
    ELSE insert_loaded(d, s, enabled(s, track), after_text, new_text, track, author)

\* A slip: both branches take the untracked path.
delete_text_untracked(d, s, text_to_delete, track, author) ==
    replace_text(d, s, text_to_delete, <<>>, FALSE, author)

\* delete_text(folder, text_to_delete, track_changes, author): both branches
\* return replace_text(folder, text_to_delete, "", ...), with track_changes
\* as given in the first and False in the second
delete_text(d, s, text_to_delete, track, author) ==
    replace_text(d, s, text_to_delete, <<>>, IF track THEN track ELSE FALSE, author)

(***************************************************************************)
(* Documents as nested values (an element with the sequence of its child   *)
(* elements), used to write documents down and to compare trees.           *)
(***************************************************************************)

RECURSIVE Val(_, _)
\* the subtree of T at n as a nested value
Val(T, n) == [T[n] EXCEPT !.ch = [i \in 1..Len(T[n].ch) |-> Val(T, T[n].ch[i])]]

RECURSIVE Size(_)
RECURSIVE SizeAll(_)
Size(v) == 1 + SizeAll(v.ch)

SizeAll(vs) == IF vs = <<>> THEN 0 ELSE Size(Head(vs)) + SizeAll(Tail(vs))

RECURSIVE Flat(_)
\* the arena of a nested value, numbered in document order
Flat(v) ==
    LET subs == [i \in 1..Len(v.ch) |-> Flat(v.ch[i])]
        off(i) == 1 + SizeAll(SubSeq(v.ch, 1, i - 1))
        shift(T, d) == [n \in 1..Len(T) |->
                          [T[n] EXCEPT !.ch = [j \in 1..Len(T[n].ch) |-> T[n].ch[j] + d]]]
    IN  <<[v EXCEPT !.ch = [i \in 1..Len(v.ch) |-> off(i) + 1]]>>
        \o Concat([i \in 1..Len(v.ch) |-> shift(subs[i], off(i))])

VText(s) == Node("t", s, <<>>, EdgeSpace(s), "", <<>>)
VRun(s) == Elem("r", <<VText(s)>>)
VRun2(s1, s2) == Elem("r", <<VText(s1), VText(s2)>>)
VRunFmt(s) == Elem("r", <<Elem("rPr", <<>>), VText(s)>>)
VInsBy(id, s, au) == Node("ins", <<>>, id, FALSE, au, <<VRun(s)>>)
VDelBy(id, s, au) ==
    Node("del", <<>>, id, FALSE, au,
         <<Elem("r", <<Node("delText", s, <<>>, EdgeSpace(s), "", <<>>)>>)>>)
VIns(id, s) == VInsBy(id, s, "X")
VDel(id, s) == VDelBy(id, s, "X")
VBookmark(id) == Node("bookmarkStart", <<>>, id, FALSE, "", <<>>)
VPara(items) == Elem("p", items)
\* a run that anchors a text box: its own text, then the box's paragraphs
VBoxRun(s, paras) == Elem("r", <<VText(s), Elem("txbx", paras)>>)
VBody(paras) == Elem("body", paras)

(***************************************************************************)
(* Bounds and the inputs drawn from them.                                  *)
(***************************************************************************)

\* paragraphs of a starting document
MaxParas == 2
\* calls in a row on one document
MaxOps == 2
\* characters of a text handed to the synthesizer
MaxLen == 3

A == <<"a">>
B == <<"b">>
AB == <<"a", "b">>

ParaMenu ==
    << VPara(<<VRun(AB)>>),
       VPara(<<VRun(A), VRun(B)>>),
       VPara(<<Elem("pPr", <<>>), VRunFmt(<<"a", "b", "a">>)>>),
       VPara(<<VRun2(A, B)>>),
       VPara(<<VIns(<<"3">>, AB), VBookmark(<<"7">>)>>),
       VPara(<<VDel(<<"x">>, AB), VRun(<<" ", "a", "b", " ">>), VBookmark(<<"-", "2">>)>>),
       VPara(<<VBoxRun(B, <<VPara(<<VRun(AB)>>)>>)>>),
       VPara(<<VBoxRun(<<>>, <<VPara(<<VRun(A), VRun(B)>>)>>)>>),
       VPara(<<VBoxRun(A, <<VPara(<<VIns(<<"5">>, B)>>)>>)>>) >>

RECURSIVE Ascending(_)
\* the numbers of S in increasing order
Ascending(S) ==
    IF S = {} THEN <<>>
    ELSE LET m == CHOOSE x \in S : \A y \in S : x <= y
         IN  <<m>> \o Ascending(S \ {m})

\* a document: 1..MaxParas paragraphs of the menu, in the menu's order
DocOf(S) == OnDisk(Flat(VBody([i \in 1..Cardinality(S) |-> ParaMenu[Ascending(S)[i]]])))

Docs ==
    {DocOf(S) : S \in {X \in SUBSET (1..Len(ParaMenu)) : Cardinality(X) \in 1..MaxParas}}

\* the documents that calls in a row start from
SeqDocs == {DocOf({1}), DocOf({5, 6}), DocOf({8})}

SettingsMenu ==
    { NoSettings,
      [present |-> TRUE, dup |-> FALSE, kids |-> <<"zoom">>],
      [present |-> TRUE, dup |-> FALSE, kids |-> <<"zoom", "trackRevisions">>] }

Finds == {A, AB, <<>>}
Repls == {B, <<"a", " ">>}
NewTexts == {<<" ", "b">>}
Authors == {"A", "Document Editor"}

SeqFinds == {A, AB}
SeqRepls == {B}
SeqAuthors == {"A"}

NoOp ==
    [name |-> "none", find |-> <<>>, text |-> <<>>, track |-> FALSE, author |-> "",
     pre |-> NoDoc, pres |-> NoSettings, ret |-> Ret("", 0, FALSE), log |-> <<>>]

(***************************************************************************)
(* The state machine.                                                      *)
(***************************************************************************)

Init ==
    /\ doc \in Docs \cup {NoDoc}
    /\ settings \in SettingsMenu
    /\ op = NoOp
    /\ left = 1

\* a call: its outcome o becomes the state
Call(name, find, text, track, author, o) ==
    /\ left > 0
    /\ left' = left - 1
    /\ doc' = o.doc
    /\ settings' = o.settings
    /\ op' = [name |-> name, find |-> find, text |-> text, track |-> track,
              author |-> author, pre |-> doc, pres |-> settings,
              ret |-> o.ret, log |-> o.log]

ReplaceOf(F, R, Au) ==
    \E f \in F, r \in R, t \in BOOLEAN, a \in Au :
        Call("replace", f, r, t, a, replace_text(doc, settings, f, r, t, a))

InsertAfterOf(F, X, Au) ==
    \E f \in F, x \in X, t \in BOOLEAN, a \in Au :
        Call("insertAfter", f, x, t, a, insert_text_after(doc, settings, f, x, t, a))

DeleteOf(F, Au) ==
    \E f \in F, t \in BOOLEAN, a \in Au :
        Call("delete", f, <<>>, t, a, delete_text(doc, settings, f, t, a))

Replace == ReplaceOf(Finds, Repls, Authors)

InsertAfter == InsertAfterOf(Finds, NewTexts, Authors)

Delete == DeleteOf(Finds, Authors)

Next == Replace \/ InsertAfter \/ Delete

\* one call on any starting document
Spec == Init /\ [][Next]_vars

\* up to MaxOps calls in a row, each completing before the next starts
SeqInit ==
    /\ doc \in SeqDocs
    /\ settings \in SettingsMenu
    /\ op = NoOp
    /\ left = MaxOps

SeqReplace == ReplaceOf(SeqFinds, SeqRepls, SeqAuthors)

SeqInsertAfter == InsertAfterOf(SeqFinds, NewTexts, SeqAuthors)

SeqDelete == DeleteOf(SeqFinds, SeqAuthors)

SeqNext == SeqReplace \/ SeqInsertAfter \/ SeqDelete

SeqSpec == SeqInit /\ [][SeqNext]_vars

(***************************************************************************)
(* The synthesizer on its own: a text, an author and a change id are       *)
(* drawn, and one of create_run, create_tracked_insertion and              *)
(* create_tracked_deletion builds its element from them.                   *)
(***************************************************************************)

Chars == {"a", " "}

RECURSIVE Strs(_)
\* the texts of at most n characters
Strs(n) ==
    IF n = 0 THEN {<<>>}
    ELSE Strs(n - 1) \cup {Append(s, c) : s \in Strs(n - 1), c \in Chars}

Texts == Strs(MaxLen)

ChangeIds == {1, 12}

NoElem == Elem("none", <<>>)

SynthInit ==
    /\ doc = NoDoc
    /\ settings = NoSettings
    /\ left = 1
    /\ \E text \in Texts, author \in Authors, change_id \in ChangeIds :
          op = [name |-> "none", text |-> text, author |-> author,
                change_id |-> change_id, built |-> NoElem]

\* a call of the synthesizer: the element b built becomes op.built
Make(name, b) ==
    /\ left > 0
    /\ left' = left - 1
    /\ op' = [op EXCEPT !.name = name, !.built = Val(b.T, b.n)]
    /\ UNCHANGED <<doc, settings>>

MakeRun == Make("create_run", create_run(<<>>, op.text))

MakeInsertion ==
    Make("create_tracked_insertion",
         create_tracked_insertion(<<>>, op.text, op.author, op.change_id))

MakeDeletion ==
    Make("create_tracked_deletion",
         create_tracked_deletion(<<>>, op.text, op.author, op.change_id))

SynthNext == MakeRun \/ MakeInsertion \/ MakeDeletion

SynthSpec == SynthInit /\ [][SynthNext]_vars

(***************************************************************************)
(* Vocabulary of the properties.                                           *)
(***************************************************************************)

PreT == op.pre.tree

\* the call returned (it raised nothing)
Returned(name) == op.name = name /\ op.ret.err = ""

\* the parts were there to be read: the document part, and a settings part
\* that is absent or well-formed
Loadable == op.pre.present /\ ~op.pres.dup

Nodes(T) == 1..Len(T)

SetMax(S) == CHOOSE x \in S : \A y \in S : y <= x

\* the numeric identifiers on the elements of T
NumericIds(T) ==
    {IntOf(T[n].wid) : n \in {m \in Nodes(T) : T[m].wid # <<>> /\ IsInt(T[m].wid)}}

HasNonNumericId(T) == \E n \in Nodes(T) : T[n].wid # <<>> /\ ~IsInt(T[n].wid)

\* the identifiers of the tracked-change records of T, in document order
RecordIds(T) ==
    LET rs == SelectSeq(Iter(T, 1), LAMBDA n : T[n].k \in {"ins", "del"})
    IN  [i \in 1..Len(rs) |-> T[rs[i]].wid]

NoDup(s) == \A i, j \in 1..Len(s) : i # j => s[i] # s[j]

Occurs(s, x) == Cardinality({i \in 1..Len(s) : s[i] = x})

\* the record identifiers the last call synthesized: those that occur on more
\* records after it than before it
Synthesized ==
    {RecordIds(doc.tree)[i] : i \in
        {j \in 1..Len(RecordIds(doc.tree)) :
            Occurs(RecordIds(doc.tree), RecordIds(doc.tree)[j])
                > Occurs(RecordIds(PreT), RecordIds(doc.tree)[j])}}

\* the runs of T whose text holds f
Matching(T, f) == {r \in Nodes(T) : T[r].k = "r" /\ In(f, get_text_content(T, r))}

ParentIn(T, n) == CHOOSE p \in Nodes(T) : InSeq(n, T[p].ch)

RECURSIVE PathOf(_, _)
\* the child positions that lead from the root to n
PathOf(T, n) ==
    IF n = 1 THEN <<>>
    ELSE PathOf(T, ParentIn(T, n)) \o <<IndexOf(T[ParentIn(T, n)].ch, n)>>

RECURSIVE Splice(_, _, _)
\* the nested value v with the element at path replaced by the elements new
Splice(v, path, new) ==
    IF Len(path) = 1
    THEN [v EXCEPT !.ch = SubSeq(@, 1, path[1] - 1) \o new \o SubSeq(@, path[1] + 1, Len(@))]
    ELSE [v EXCEPT !.ch[path[1]] = Splice(@, Tail(path), new)]

\* a plain run for s, none when s is empty
RunIf(s) == IF s = <<>> THEN <<>> ELSE <<VRun(s)>>

(***************************************************************************)
(* Properties.                                                             *)
(***************************************************************************)

\* C1: over calls in a row on a document whose record identifiers start out
\* pairwise distinct, the record identifiers stay pairwise distinct, and
\* every identifier a call synthesizes is a number strictly greater than
\* every numeric identifier the document held when the call started.
C1_IdsUniqueAndIncreasing ==
    /\ doc.present => NoDup(RecordIds(doc.tree))
    /\ (op.name # "none" /\ op.ret.err = "") =>
          \A v \in Synthesized :
              /\ IsInt(v)
              /\ \A w \in NumericIds(PreT) : IntOf(v) > w

\* C1 witness: a second tracked call in a row has synthesized identifiers on
\* top of records that the first one left (author "A").
C1_Witness ==
    /\ left = 0
    /\ op.track /\ op.ret.err = ""
    /\ Synthesized # {}
    /\ \E n \in Nodes(PreT) : PreT[n].k \in {"ins", "del"} /\ PreT[n].au = "A"

\* C2: a tracked replace that finds its text in exactly one run returns 1 and
\* puts, where that run was, a plain run for the text before the match (if
\* any), a deletion record for the match with identifier N, an insertion
\* record for the replacement with identifier N + 1 and a plain run for the
\* text after the match (if any), in that order, N being one more than the
\* highest numeric identifier of the loaded tree; N and N + 1 are the two
\* identifiers synthesized.
C2_TrackedReplaceSiblings ==
    (/\ op.name = "replace" /\ op.track /\ Loadable
     /\ op.find # <<>>
     /\ Cardinality(Matching(PreT, op.find)) = 1)
    => LET m == CHOOSE r \in Matching(PreT, op.find) : TRUE
           parts == partition(get_text_content(PreT, m), op.find)
           N == SetMax(NumericIds(PreT) \cup {0}) + 1
           new == RunIf(parts[1])
                  \o <<VDelBy(IntStr(N), op.find, op.author),
                       VInsBy(IntStr(N + 1), op.text, op.author)>>
                  \o RunIf(parts[3])
       IN  /\ op.ret = Ret("", 1, FALSE)
           /\ doc.present
           /\ Val(doc.tree, 1) = Splice(Val(PreT, 1), PathOf(PreT, m), new)
           /\ Synthesized = {IntStr(N), IntStr(N + 1)}

\* C2 witness: a tracked replace has split one run with text on both sides
\* of the match.
C2_Witness ==
    /\ op.name = "replace" /\ op.track /\ op.ret.err = "" /\ op.find # <<>>
    /\ Cardinality(Matching(PreT, op.find)) = 1
    /\ LET m == CHOOSE r \in Matching(PreT, op.find) : TRUE
           parts == partition(get_text_content(PreT, m), op.find)
       IN  parts[1] # <<>> /\ parts[3] # <<>>

\* C3 as stated: nextId is one more than the highest numeric identifier, 1
\* when there is none, and is not an identifier of the tree.
C3_Original ==
    doc.present =>
        /\ get_next_change_id(doc.tree) =
              IF NumericIds(doc.tree) = {} THEN 1
              ELSE SetMax(NumericIds(doc.tree)) + 1
        /\ get_next_change_id(doc.tree) \notin NumericIds(doc.tree)

\* C3: nextId is one more than the highest numeric identifier when that is
\* at least 0, and 1 when no numeric identifier exists or all of them are
\* negative; identifiers that are not numeric count as absent, and the value
\* returned is not an identifier of the tree.
C3_NextId ==
    doc.present =>
        /\ get_next_change_id(doc.tree) = SetMax(NumericIds(doc.tree) \cup {0}) + 1
        /\ get_next_change_id(doc.tree) \notin NumericIds(doc.tree)

\* C3 witness: a tree with the identifiers 3 and 7, a negative one and one
\* that is not numeric, for which 8 is returned.
C3_Witness ==
    /\ doc.present
    /\ {3, 7} \subseteq NumericIds(doc.tree)
    /\ \E x \in NumericIds(doc.tree) : x < 0
    /\ HasNonNumericId(doc.tree)
    /\ get_next_change_id(doc.tree) = 8

\* the number of places where f occurs in s
Occurrences(s, f) == Cardinality({i \in 1..(Len(s) + 1) : StartsAt(s, f, i)})

\* run r holds another run or lies inside one
Nested(T, r) ==
    \E q \in Nodes(T) : q # r /\ T[q].k = "r" /\ (InSeq(q, Iter(T, r)) \/ InSeq(r, Iter(T, q)))

\* the text that before | find | after leaves of s with r for find
Substituted(s, f, r) == partition(s, f)[1] \o r \o partition(s, f)[3]

\* the tags and attributes of the elements of T, their text apart
Shape(T) == [n \in Nodes(T) |-> [T[n] EXCEPT !.txt = <<>>]]

\* C4: an untracked replace leaves every run whose text held find
\* exactly once, with no space at either end, with that text and find
\* substituted, however many text leaves the run has; the elements of the
\* tree, the run's formatting properties among them, stay what and where
\* they were.
C4_UntrackedReplaceText ==
    (op.name = "replace" /\ ~op.track /\ Loadable /\ op.find # <<>>)
    => /\ op.ret.err = "" /\ doc.present
       /\ Shape(doc.tree) = Shape(PreT)
       /\ \A r \in Matching(PreT, op.find) :
             LET s == get_text_content(PreT, r)
             IN  (Occurrences(s, op.find) = 1 /\ ~EdgeSpace(s))
                 => get_text_content(doc.tree, r) = Substituted(s, op.find, op.text)

RECURSIVE ExpectedLive(_, _, _, _)
\* the live text under n once every run that holds f is rewritten as
\* before + r + after
ExpectedLive(T, n, f, r) ==
    IF T[n].k = "r" /\ In(f, get_text_content(T, n))
    THEN Substituted(get_text_content(T, n), f, r)
    ELSE IF T[n].k = "t" THEN T[n].txt
    ELSE Concat([i \in 1..Len(T[n].ch) |-> ExpectedLive(T, T[n].ch[i], f, r)])

\* every paragraph of the body reads as ExpectedLive says
LiveTextAsPartitioned ==
    /\ Len(doc.tree[1].ch) = Len(PreT[1].ch)
    /\ \A i \in 1..Len(PreT[1].ch) :
          get_text_content(doc.tree, doc.tree[1].ch[i])
              = ExpectedLive(PreT, PreT[1].ch[i], op.find, op.text)

\* C5: after a replace, tracked or untracked, every matched run reads
\* before + replacement + after for the leftmost occurrence of find, so that
\* further occurrences of find in after stay in place.
C5_LeftmostOccurrenceOnly ==
    (Returned("replace") /\ Loadable /\ op.find # <<>>) => LiveTextAsPartitioned

\* What the two branches do instead: a tracked replace rewrites a matched run
\* at the leftmost occurrence of find only (before + replacement + after); an
\* untracked replace puts into the first text leaf of a matched run that
\* neither holds nor lies in another run the run's text with every
\* occurrence of find replaced, and leaves the run's other leaves as they
\* were.
TrackedLeftmostUntrackedAll ==
    (Returned("replace") /\ Loadable /\ op.find # <<>>)
    => IF op.track THEN LiveTextAsPartitioned
       ELSE \A r \in Matching(PreT, op.find) :
               ~Nested(PreT, r)
               => LET ts == IterTag(PreT, r, "t")
                  IN  /\ doc.tree[Head(ts)].txt
                            = ReplaceFrom(get_text_content(PreT, r), op.find, op.text)
                      /\ \A i \in 2..Len(ts) : doc.tree[ts[i]] = PreT[ts[i]]

\* an untracked replace has met a run that holds find twice and rewritten
\* both occurrences
UntrackedRewroteTwice ==
    /\ Returned("replace") /\ ~op.track /\ op.find # <<>>
    /\ \E r \in Matching(PreT, op.find) :
          /\ ~Nested(PreT, r)
          /\ Occurrences(get_text_content(PreT, r), op.find) = 2
          /\ doc.tree[Head(IterTag(PreT, r, "t"))].txt
                # Substituted(get_text_content(PreT, r), op.find, op.text)

\* C6: a replace, tracked or untracked, whose non-empty find is in no run
\* returns 0 and persists the tree it loaded, element for element.
C6_AbsentFindNoChange ==
    (op.name = "replace" /\ Loadable /\ op.find # <<>> /\ Matching(PreT, op.find) = {})
    => /\ op.ret = Ret("", 0, FALSE)
       /\ doc = op.pre
       /\ op.log[Len(op.log)] = "document"

\* C6 witness: a tracked replace went over a paragraph whose text holds find
\* while no run does.
C6_Witness ==
    /\ op.name = "replace" /\ op.track /\ Loadable /\ op.find # <<>>
    /\ Matching(PreT, op.find) = {}
    /\ \E p \in Nodes(PreT) : PreT[p].k = "p" /\ In(op.find, get_text_content(PreT, p))

\* the runs under paragraph p and the runs p lies in
RunsAround(T, p) ==
    {r \in Nodes(T) : T[r].k = "r" /\ (InSeq(r, Iter(T, p)) \/ InSeq(p, Iter(T, r)))}

\* f is in the text of paragraph p, and in the text of no run around p
CrossRunOnly(T, p, f) ==
    /\ T[p].k = "p"
    /\ In(f, get_text_content(T, p))
    /\ \A r \in RunsAround(T, p) : ~In(f, get_text_content(T, r))

\* the paragraphs of the loaded tree that the call leaves in the tree, in
\* document order: all of them, less those inside a run that a tracked
\* replace has replaced
KeptParas ==
    SelectSeq(IterTag(PreT, 1, "p"),
              LAMBDA p : ~(op.track /\ op.name # "insertAfter" /\ op.ret.err = ""
                           /\ \E r \in Matching(PreT, op.find) : InSeq(p, Iter(PreT, r))))

\* C7: a paragraph whose text holds find while none of its runs does comes
\* out of replace with all its runs as they were, and replace returns 0 when
\* every paragraph is like that; insertAfter with an anchor that no run
\* holds returns false.
C7_CrossRunNotMatched ==
    /\ (Returned("replace") /\ Loadable /\ op.find # <<>>)
       => /\ \A p \in Nodes(PreT) :
                (/\ PreT[p].k = "p"
                 /\ In(op.find, get_text_content(PreT, p))
                 /\ \A r \in Nodes(PreT) :
                       (PreT[r].k = "r" /\ InSeq(r, Iter(PreT, p)))
                       => ~In(op.find, get_text_content(PreT, r)))
                => \E q \in Nodes(doc.tree) : Val(doc.tree, q) = Val(PreT, p)
          /\ Matching(PreT, op.find) = {} => op.ret.count = 0
    /\ (op.name = "insertAfter" /\ Loadable /\ op.find # <<>>
        /\ Matching(PreT, op.find) = {})
       => op.ret = Ret("", 0, FALSE)

\* What holds away from text boxes: a paragraph whose text holds find only
\* across a run boundary, with no run under it and no run it lies inside
\* holding find, comes out of replace as it went in, and replace returns 0
\* when every paragraph is like that; insertAfter with an anchor held by no
\* run of the document returns false and leaves the document alone.
CrossRunKeptOutsideMatchedRuns ==
    /\ (op.name = "replace" /\ Loadable /\ op.find # <<>>)
       => /\ Len(IterTag(doc.tree, 1, "p")) = Len(KeptParas)
          /\ \A p \in Nodes(PreT) :
                CrossRunOnly(PreT, p, op.find)
                => /\ InSeq(p, KeptParas)
                   /\ Val(doc.tree, IterTag(doc.tree, 1, "p")[IndexOf(KeptParas, p)])
                         = Val(PreT, p)
          /\ Matching(PreT, op.find) = {} => op.ret = Ret("", 0, FALSE)
    /\ (op.name = "insertAfter" /\ Loadable /\ op.find # <<>>
        /\ Matching(PreT, op.find) = {})
       => op.ret = Ret("", 0, FALSE) /\ doc = op.pre

\* a tracked replace has edited a run of one paragraph and left alone another
\* paragraph that holds find across its runs
CrossRunKeptSeen ==
    /\ Returned("replace") /\ op.track /\ op.find # <<>>
    /\ op.ret.count > 0
    /\ \E p \in Nodes(PreT) : CrossRunOnly(PreT, p, op.find)

\* C8 as stated: insertAfter with an anchor that no run holds returns false
\* and writes neither part, tracked or not.
C8_Original ==
    (op.name = "insertAfter" /\ Loadable /\ Matching(PreT, op.find) = {})
    => /\ op.ret = Ret("", 0, FALSE)
       /\ op.log = <<>>
       /\ doc = op.pre /\ settings = op.pres

\* C8: insertAfter with an anchor that no run holds returns false and does
\* not write the document part; untracked it writes nothing at all; tracked
\* it has written the settings part before the scan (created if absent, the
\* tracking flag put first if missing).
C8_NoMatchNoDocumentWrite ==
    (op.name = "insertAfter" /\ Loadable /\ Matching(PreT, op.find) = {})
    => /\ op.ret = Ret("", 0, FALSE)
       /\ doc = op.pre
       /\ IF op.track
          THEN /\ op.log = <<"settings">>
               /\ settings.present
               /\ settings.kids = IF InSeq("trackRevisions", op.pres.kids)
                                  THEN op.pres.kids
                                  ELSE <<"trackRevisions">> \o op.pres.kids
          ELSE op.log = <<>> /\ settings = op.pres

\* C8 witness: a tracked insertAfter found no run, and the settings part
\* that was absent is there.
C8_Witness ==
    /\ op.name = "insertAfter" /\ op.track /\ op.pre.present
    /\ Matching(PreT, op.find) = {}
    /\ ~op.pres.present /\ settings.present
    /\ ~op.ret.inserted

\* the tree insertAfter is to leave: the first run that holds the anchor
\* replaced by a run for before + anchor, one element for the new text and a
\* run for the text after the anchor, if any
InsertedAtFirst ==
    LET m == CHOOSE r \in Matching(PreT, op.find) :
                 \A q \in Matching(PreT, op.find) : r <= q
        parts == partition(get_text_content(PreT, m), op.find)
        N == SetMax(NumericIds(PreT) \cup {0}) + 1
        new == <<VRun(parts[1] \o op.find),
                 IF op.track THEN VInsBy(IntStr(N), op.text, op.author)
                 ELSE VRun(op.text)>>
               \o RunIf(parts[3])
    IN  Splice(Val(PreT, 1), PathOf(PreT, m), new)

\* the runs of PreT, other than its first run that holds the anchor, that
\* hold the anchor
OtherMatching ==
    Matching(PreT, op.find)
        \ {CHOOSE r \in Matching(PreT, op.find) : \A q \in Matching(PreT, op.find) : r <= q}

FirstMatching ==
    CHOOSE r \in Matching(PreT, op.find) : \A q \in Matching(PreT, op.find) : r <= q

\* C9: insertAfter with an anchor that some run holds returns true, replaces
\* the first such run in document order by [before + anchor, the new text (a
\* plain run untracked, an insertion record tracked), after?] where it was,
\* and leaves every other run that holds the anchor in the document,
\* untouched.
C9_FirstRunOnly ==
    (op.name = "insertAfter" /\ Loadable /\ op.find # <<>> /\ Matching(PreT, op.find) # {})
    => /\ op.ret = Ret("", 0, TRUE)
       /\ Val(doc.tree, 1) = InsertedAtFirst
       /\ \A r \in OtherMatching :
             \E q \in Nodes(doc.tree) : Val(doc.tree, q) = Val(PreT, r)

\* What holds of the runs outside the edited one: insertAfter returns true,
\* replaces the first run that holds the anchor as C9 says, and leaves every
\* other run that holds the anchor and does not lie inside the edited run
\* untouched; what lies inside the edited run goes with it.
OthersKeptOutsideEditedRun ==
    (op.name = "insertAfter" /\ Loadable /\ op.find # <<>> /\ Matching(PreT, op.find) # {})
    => /\ op.ret = Ret("", 0, TRUE)
       /\ Val(doc.tree, 1) = InsertedAtFirst
       /\ \A r \in OtherMatching :
             ~InSeq(r, Iter(PreT, FirstMatching))
             => \E q \in Nodes(doc.tree) : Val(doc.tree, q) = Val(PreT, r)

\* insertAfter has split the first of several runs that hold the anchor, with
\* text after the anchor, and a later one is outside it
OthersKeptSeen ==
    /\ Returned("insertAfter") /\ op.ret.inserted /\ op.find # <<>>
    /\ partition(get_text_content(PreT, FirstMatching), op.find)[3] # <<>>
    /\ \E r \in OtherMatching : ~InSeq(r, Iter(PreT, FirstMatching))

\* C10: delete leaves the parts and returns the count that replace with the
\* empty replacement leaves and returns on the same starting parts, with
\* the same target, mode and author.
C10_DeleteIsReplaceWithEmpty ==
    op.name = "delete"
    => LET o == replace_text(op.pre, op.pres, op.find, <<>>, op.track, op.author)
       IN  doc = o.doc /\ settings = o.settings /\ op.ret = o.ret /\ op.log = o.log

\* C10 witness: a tracked delete has removed text from a run.
C10_Witness ==
    /\ Returned("delete") /\ op.track /\ op.ret.count > 0
    /\ \E n \in Nodes(doc.tree) : doc.tree[n].k = "del" /\ doc.tree[n].au = op.author

\* the elements of kind k in T
OfKind(T, k) == {n \in Nodes(T) : T[n].k = k}

\* C11: a tracked delete that matched runs adds one deletion record for each
\* matched run and no insertion record: the document holds as many insertion
\* records after the call as before it.
C11_PureDeletion ==
    (Returned("delete") /\ op.track /\ op.ret.count > 0)
    => /\ Cardinality(OfKind(doc.tree, "ins")) = Cardinality(OfKind(PreT, "ins"))
       /\ Cardinality(OfKind(doc.tree, "del"))
            = Cardinality(OfKind(PreT, "del")) + op.ret.count

\* C12: over tracked calls in a row on a loadable document, starting from a
\* settings part that is absent or holds at most one tracking flag, no call
\* fails to read or create the settings part, and after each of them the
\* settings part is there and holds exactly one tracking flag.
C12_EnableIdempotent ==
    (op.name # "none" /\ op.track /\ op.pre.present)
    => /\ op.ret.err # "ParseError"
       /\ settings.present
       /\ Occurs(settings.kids, "trackRevisions") = 1

\* every leaf of T of one of the kinds whose text starts or ends with a
\* space carries the whitespace-preservation flag
Preserved(T, kinds) ==
    \A n \in Nodes(T) : (T[n].k \in kinds /\ EdgeSpace(T[n].txt)) => T[n].sp

\* C13: when every text leaf that starts or ends with a space carries the
\* whitespace-preservation flag before replace, insertAfter or delete,
\* tracked or untracked, every text leaf and deleted-text leaf that starts or
\* ends with a space carries it after the call.
C13_WhitespacePreserved ==
    (op.name # "none" /\ op.ret.err = "" /\ Preserved(PreT, {"t"}))
    => Preserved(doc.tree, {"t", "delText"})

\* the run of the element the synthesizer built, and its leaves
BuiltRun == IF op.name = "create_run" THEN op.built ELSE Head(op.built.ch)

\* C14: for every text, the run that create_run, create_tracked_insertion
\* and create_tracked_deletion build holds one leaf with the text, a text
\* leaf or (in a deletion record) a deleted-text leaf, and the leaf carries
\* the whitespace-preservation flag if and only if the text starts or ends
\* with a space; the empty text gives an empty leaf without the flag.
C14_FlagIffEdgeSpace ==
    op.name \in {"create_run", "create_tracked_insertion", "create_tracked_deletion"}
    => /\ BuiltRun.k = "r" /\ Len(BuiltRun.ch) = 1
       /\ Head(BuiltRun.ch).k
            = (IF op.name = "create_tracked_deletion" THEN "delText" ELSE "t")
       /\ Head(BuiltRun.ch).txt = op.text
       /\ Head(BuiltRun.ch).sp
            <=> \E i \in {1, Len(op.text)} \cap DOMAIN op.text : op.text[i] = " "
       /\ op.text = <<>> => ~Head(BuiltRun.ch).sp

\* C14 witness: an insertion record has been built for a text that ends with
\* a space and does not start with one, and its leaf carries the flag.
C14_Witness ==
    /\ op.name = "create_tracked_insertion"
    /\ op.text = <<"a", " ">>
    /\ Head(BuiltRun.ch).sp

\* C15: when the document part is missing, replace, insertAfter and delete,
\* tracked or untracked, fail with the not-found error and write nothing: the
\* document part is still missing and the settings part is as it was.
C15_MissingDocumentWritesNothing ==
    (op.name # "none" /\ ~op.pre.present)
    => /\ op.ret.err = "FileNotFoundError"
       /\ ~doc.present
       /\ settings = op.pres
       /\ op.log = <<>>

\* C15 witness: a tracked replace was called with the document part and the
\* settings part both missing, and the settings part is still missing.
C15_Witness ==
    /\ op.name = "replace" /\ op.track
    /\ ~op.pre.present /\ ~op.pres.present
    /\ ~settings.present

\* C16: replace with the empty find, tracked or untracked, on a loadable
\* document raises no error, saves the document part and returns a count.
C16_EmptyFindCompletes ==
    (op.name = "replace" /\ Loadable /\ op.find = <<>>)
    => /\ op.ret.err = ""
       /\ op.log # <<>> /\ op.log[Len(op.log)] = "document"
       /\ op.ret.count \in Nat

\* C17: the count that replace returns is the number of runs of the loaded
\* document whose text holds find, whatever the number of occurrences in a
\* run and whatever the nesting of its paragraph.
C17_CountIsMatchedRuns ==
    (Returned("replace") /\ Loadable)
    => op.ret.count = Cardinality(Matching(PreT, op.find))

\* every tracked-change record of T wraps exactly one run and nothing else,
\* and holds no other record at any depth
RecordsWrapOneRun(T) ==
    \A n \in OfKind(T, "ins") \cup OfKind(T, "del") :
        /\ Len(T[n].ch) = 1
        /\ T[Head(T[n].ch)].k = "r"
        /\ \A m \in OfKind(T, "ins") \cup OfKind(T, "del") :
              m # n => ~InSeq(m, Iter(T, n))

\* C18: a tracked replace, insertAfter or delete, called on the starting
\* document or after another tracked call, on a document whose records each
\* wrap exactly one run and hold no other record, leaves a document whose
\* records each wrap exactly one run and hold no other record.
C18_RecordsWrapOneRun ==
    [][((op.name = "none" \/ op.track) /\ op'.track /\ RecordsWrapOneRun(doc.tree))
       => RecordsWrapOneRun(doc'.tree)]_vars

\* nextId of the loaded tree
LoadedNextId == SetMax(NumericIds(PreT) \cup {0}) + 1

\* the records of T with a numeric identifier of at least n, in document
\* order: the records a call made whose loaded tree had nextId n
RecordsFrom(T, n) ==
    SelectSeq(Iter(T, 1),
              LAMBDA m : T[m].k \in {"ins", "del"} /\ IsInt(T[m].wid) /\ IntOf(T[m].wid) >= n)

\* C19: with n the nextId of the loaded tree, a tracked replace that matches
\* k runs makes 2k records whose identifiers are n, n+1, ..., n+2k-1 in
\* document order, a deletion then an insertion for each matched run; a
\* tracked insertAfter that inserts makes one record, an insertion with the
\* identifier n.
C19_IdsInDocumentOrder ==
    /\ (Returned("replace") /\ op.track /\ Loadable)
       => /\ op.ret.count = Cardinality(Matching(PreT, op.find))
          /\ Len(RecordsFrom(doc.tree, LoadedNextId)) = 2 * op.ret.count
          /\ \A i \in 1..(2 * op.ret.count) :
                /\ doc.tree[RecordsFrom(doc.tree, LoadedNextId)[i]].wid
                     = IntStr(LoadedNextId + i - 1)
                /\ doc.tree[RecordsFrom(doc.tree, LoadedNextId)[i]].k
                     = (IF i % 2 = 1 THEN "del" ELSE "ins")
    /\ (Returned("insertAfter") /\ op.track /\ Loadable /\ op.ret.inserted)
       => /\ Len(RecordsFrom(doc.tree, LoadedNextId)) = 1
          /\ doc.tree[RecordsFrom(doc.tree, LoadedNextId)[1]].wid = IntStr(LoadedNextId)
          /\ doc.tree[RecordsFrom(doc.tree, LoadedNextId)[1]].k = "ins"

\* C19 witness: a tracked replace has matched two runs of a tree that held
\* identifiers already, and made four records.
C19_Witness ==
    /\ Returned("replace") /\ op.track /\ op.ret.count = 2
    /\ LoadedNextId > 1
    /\ Len(RecordsFrom(doc.tree, LoadedNextId)) = 4

\* the runs the call matched in the loaded tree: for insertAfter the first
\* run that holds the anchor, for replace and delete every run that holds find
MatchedRuns ==
    IF op.name = "insertAfter"
    THEN (IF Matching(PreT, op.find) = {} THEN {} ELSE {FirstMatching})
    ELSE Matching(PreT, op.find)

RECURSIVE SameOutside(_, _)
RECURSIVE KidsAligned(_, _, _, _)
\* element q of the document is element p of the loaded tree, changed at the
\* places of the matched runs under p at most
SameOutside(p, q) ==
    /\ [PreT[p] EXCEPT !.ch = <<>>] = [doc.tree[q] EXCEPT !.ch = <<>>]
    /\ KidsAligned(PreT[p].ch, 1, doc.tree[q].ch, 1)

\* the children ps[i..] of the loaded tree against the children qs[j..] of
\* the document: a child that is no matched run is there, in its turn; where
\* a matched run was there are any number of fragments
KidsAligned(ps, i, qs, j) ==
    IF i > Len(ps) THEN j > Len(qs)
    ELSE IF ps[i] \in MatchedRuns
         THEN \E j2 \in j..(Len(qs) + 1) : KidsAligned(ps, i + 1, qs, j2)
         ELSE /\ j <= Len(qs)
              /\ SameOutside(ps[i], qs[j])
              /\ KidsAligned(ps, i + 1, qs, j + 1)

\* C20: after replace, insertAfter or delete every element other than the
\* matched runs is what and where it was, the new fragments being where the
\* matched runs were, and every run that was not matched is in the document
\* as it was.
C20_OnlyMatchedRunsChange ==
    (op.name # "none" /\ op.pre.present)
    => /\ SameOutside(1, 1)
       /\ \A r \in OfKind(PreT, "r") \ MatchedRuns :
             \E q \in Nodes(doc.tree) : Val(doc.tree, q) = Val(PreT, r)

\* C21: a call writes the document part at most once, as its last write:
\* replace and delete exactly once when they return, also with the count 0;
\* insertAfter exactly once when it returns true and not at all when it
\* returns false; a tracked call that writes the document part has written
\* the settings part before it; a call that has not written the document
\* part leaves it as it was.
C21_DocumentWrittenOnceLast ==
    op.name # "none"
    => /\ Occurs(op.log, "document") <= 1
       /\ (Returned("replace") \/ Returned("delete"))
          => Occurs(op.log, "document") = 1
       /\ Returned("insertAfter")
          => Occurs(op.log, "document") = (IF op.ret.inserted THEN 1 ELSE 0)
       /\ Occurs(op.log, "document") = 1
          => op.log = (IF op.track THEN <<"settings", "document">> ELSE <<"document">>)
       /\ Occurs(op.log, "document") = 0 => doc = op.pre

\* C21 witness: a tracked replace that matched nothing has written the
\* settings part and then the document part.
C21_Witness ==
    /\ Returned("replace") /\ op.track /\ op.ret.count = 0
    /\ op.log = <<"settings", "document">>

\* C22: on a loadable document, replace and insertAfter with a search text
\* that is not empty raise no error, whatever the nesting of the matching
\* runs, and replace reaches its save.
C22_NoFailureWhileEditing ==
    (op.name \in {"replace", "insertAfter"} /\ Loadable /\ op.find # <<>>)
    => /\ op.ret.err = ""
       /\ op.name = "replace" => Occurs(op.log, "document") = 1

\* the live text of the paragraphs of the body of T, in document order
\* (deleted text is not part of it)
ParaTexts(T) == [i \in 1..Len(T[1].ch) |-> get_text_content(T, T[1].ch[i])]

\* what the untracked replace of the same find by the same replacement
\* leaves and returns on the same starting parts
UntrackedTwin == replace_text(op.pre, op.pres, op.find, op.text, FALSE, op.author)

\* C23: a tracked replace on a loadable document leaves every paragraph with
\* the live text that the untracked replace of the same find by the same
\* replacement leaves it with, and returns the same count.
C23_TrackedAgreesWithUntracked ==
    (op.name = "replace" /\ op.track /\ Loadable)
    => /\ op.ret = UntrackedTwin.ret
       /\ ParaTexts(doc.tree) = ParaTexts(UntrackedTwin.doc.tree)

\* the identifiers of the tracked-change records of T
RecordIdSet(T) == {T[n].wid : n \in OfKind(T, "ins") \cup OfKind(T, "del")}

\* C24: replace, insertAfter and delete called without tracking leave the
\* settings part as it was, whether it was there or not, add no insertion or
\* deletion record, and leave the set of the identifiers of the
\* tracked-change records of the document as it was.
C24_UntrackedLeavesTrackingAlone ==
    (op.name # "none" /\ ~op.track)
    => /\ settings = op.pres
       /\ Occurs(op.log, "settings") = 0
       /\ op.pre.present
          => /\ Cardinality(OfKind(doc.tree, "ins")) <= Cardinality(OfKind(PreT, "ins"))
             /\ Cardinality(OfKind(doc.tree, "del")) <= Cardinality(OfKind(PreT, "del"))
             /\ RecordIdSet(doc.tree) = RecordIdSet(PreT)

====
